---------------------------- MODULE Spec2Model ----------------------------
(***************************************************************************)
(* Model of the duplex audio session hook (src/hooks/useGeminiLive.ts) and *)
(* of its caller in the application component (src/unnamed/part_001).      *)
(*                                                                         *)
(* Every call of connect() is numbered 1..MaxConnects.  Call k creates the *)
(* input context k, the output context k, the microphone stream k and the  *)
(* remote session k; the refs of the hook hold such a number, 0 for null.  *)
(* An await of the source is a suspension point: the handler's position is *)
(* kept in the state and its continuation is a separate action.            *)
(*                                                                         *)
(* Time is counted in units of 0.005 s (the underrun guard of line 230).   *)
(* clock[k] is the value the last read of output context k's currentTime   *)
(* gave: time passes between the handlers, so a read of a running context  *)
(* gives any value from clock[k] on, and a closed context's clock stands   *)
(* still at the value it had when it was closed.                           *)
(***************************************************************************)
EXTENDS Integers, Sequences, FiniteSets

\* ---------------------------------------------------------------- bounds
MaxConnects == 2      \* calls of connect() in one run
MaxMsgs     == 2      \* inbound messages delivered in one run
MaxClock    == 1      \* last value of an output context's clock
MaxDur      == 2      \* longest decoded buffer, in time units
MaxPitch    == 1      \* highest pitch setPitch is called with, in steps of the slider
MaxLen      == 2      \* longest sample buffer a function of audioUtils is called on
MaxBytes    == 6      \* longest byte buffer decodeAudioData is called on
SampleDen   == 10     \* a sample n stands for the value n / SampleDen
MaxSample   == 12     \* samples range over -MaxSample..MaxSample, past the clamp

\* The constants of utils/audioUtils.ts.
PcmNeg     == 32768   \* 0x8000, the scale of a negative sample (line 13)
PcmPos     == 32767   \* 0x7FFF, the scale of a non-negative sample (line 13)
PcmScale   == 32768   \* the divisor of decodeAudioData (line 65)
TargetRate == 16000   \* the rate of downsampleTo16k (lines 86, 94)

\* The guard added to the clock on underrun: 0.005 s = one time unit.
Eps == 1

Calls     == 1..MaxConnects
Durations == 1..MaxDur
Pitches   == 0..MaxPitch
States    == {"DISCONNECTED", "CONNECTING", "CONNECTED", "ERROR"}

\* No source: messages are numbered from 1.
NoSource == [msg |-> 0, ctx |-> 0, start |-> 0, dur |-> 0, detune |-> 0]

\* No function of utils/audioUtils is being called on its own.
NoCall == [fn |-> "none", data |-> <<>>, param |-> 0, ret |-> <<>>, done |-> FALSE]

VARIABLES
  connectionState,   \* useState<ConnectionState>
  apiKey,            \* process.env.API_KEY is set
  nCalls,            \* calls of connect() made so far
  pc,                \* pc[k]: where call k of connect() is suspended
  inCtx,             \* inCtx[k]: "none" | "running" | "closed"
  outCtx,            \* outCtx[k]: "none" | "running" | "closed"
  stream,            \* stream[k]: "none" | "live" | "stopped"
  sess,              \* sess[k]: "none" | "opening" | "open" | "errored" | "closed" |
                     \*   "errorClosed" (closed after its error) | "rejected"
  opened,            \* sessions whose onopen has run
  clock,             \* clock[k]: currentTime of output context k when it was last read
  inputContextRef,
  outputContextRef,
  inputSourceRef,
  processorRef,
  streamRef,
  sessionPromiseRef,
  wired,             \* wired[k]: input context the processor of session k is connected on, 0 if none
  nextStartTimeRef,
  audioSourcesRef,   \* the sources of the active set, each [msg, ctx, start, dur]
  lastSource,        \* the source started last, NoSource once an interruption or a teardown ran
  pending,           \* onmessage handlers suspended at the await of decodeAudioData, in order
  nMsgs,             \* inbound messages delivered so far
  lastInt,           \* arrival number of the last message whose interruption was handled
  errors,            \* calls of onError so far
  everConnecting,    \* setConnectionState(CONNECTING) was called
  pitchRef,          \* the pitch stored by setPitch, in steps of the slider
  call,              \* a call of a function of utils/audioUtils on its own: [fn, arg, ret]
  last               \* what the last step did towards the outside of the hook, a set of
                     \*   <<"disconnect", s>>  disconnect() was called in connection state s
                     \*   <<"send", k>>        a frame was handed to session k's send path
                     \*   <<"dropped", k>>     the send of a frame to session k threw and
                     \*                        the error was swallowed
                     \*   <<"decodeFailed", m>>  the decoding of message m's payload threw
                     \*   <<"cleanup", i, o, s, p>>
                     \*                        cleanupAudio() ran, the refs of the input
                     \*                        context, the output context, the stream and
                     \*                        the processor holding i, o, s, p before it
                     \*   <<"setPitch", c>>    setPitch(c) was called
                     \*   <<"volume", c>>      onVolumeChange reported the level of channel c
                     \*   <<"onError">>        onError was called
                     \*   <<"set", "CONNECTING">>
                     \*                        setConnectionState(CONNECTING) was called, before
                     \*                        the call that left connectionState as it is
                     \*   <<"start", src, now, cursor, prev>>
                     \*                        source src was started, with the clock read,
                     \*                        the cursor and lastSource before the step
                     \*   <<"interrupt", msg, stopped>>
                     \*                        the interruption of message msg was handled
                     \*                        and stop() called on the sources of `stopped`

resources == <<inCtx, outCtx, stream, inputContextRef, outputContextRef, inputSourceRef,
               processorRef, streamRef, wired>>
playback  == <<nextStartTimeRef, audioSourcesRef, lastSource>>
vars == <<connectionState, apiKey, nCalls, pc, inCtx, outCtx, stream, sess, opened, clock,
          inputContextRef, outputContextRef, inputSourceRef, processorRef, streamRef,
          sessionPromiseRef, wired, nextStartTimeRef, audioSourcesRef, lastSource,
          pending, nMsgs, lastInt, errors, everConnecting, pitchRef, call, last>>
hook == <<connectionState, apiKey, nCalls, pc, inCtx, outCtx, stream, sess, opened, clock,
          inputContextRef, outputContextRef, inputSourceRef, processorRef, streamRef,
          sessionPromiseRef, wired, nextStartTimeRef, audioSourcesRef, lastSource,
          pending, nMsgs, lastInt, errors, everConnecting, pitchRef, last>>

\* ------------------------------------------------------------------ Init
\* The hook after its first render.
InitHook ==
  /\ connectionState = "DISCONNECTED"
  /\ apiKey \in BOOLEAN
  /\ nCalls = 0
  /\ pc = [k \in Calls |-> "idle"]
  /\ inCtx = [k \in Calls |-> "none"]
  /\ outCtx = [k \in Calls |-> "none"]
  /\ stream = [k \in Calls |-> "none"]
  /\ sess = [k \in Calls |-> "none"]
  /\ opened = {}
  /\ clock = [k \in Calls |-> 0]
  /\ inputContextRef = 0
  /\ outputContextRef = 0
  /\ inputSourceRef = 0
  /\ processorRef = 0
  /\ streamRef = 0
  /\ sessionPromiseRef = 0
  /\ wired = [k \in Calls |-> 0]
  /\ nextStartTimeRef = 0
  /\ audioSourcesRef = {}
  /\ lastSource = NoSource
  /\ pending = <<>>
  /\ nMsgs = 0
  /\ lastInt = 0
  /\ errors = 0
  /\ everConnecting = FALSE
  /\ pitchRef = 0
  /\ last = {}

Init ==
  /\ InitHook
  /\ call = NoCall

\* A step of connect(), disconnect() or a callback did `what` towards the
\* outside; none of them writes pitchRef.
Ran(what) ==
  /\ last' = what
  /\ UNCHANGED <<pitchRef, call>>

\* --------------------------------------------------------------- teardown
\* The context map after close() of the context a ref holds (0: the guard skips it).
Closed(ctxs, ref) ==
  [k \in Calls |-> IF k = ref THEN "closed" ELSE ctxs[k]]

\* cleanupAudio() step 1 and the reset of the cursor: stop and forget every source.
cleanupPlayback ==
  /\ audioSourcesRef' = {}
  /\ nextStartTimeRef' = 0
  /\ lastSource' = NoSource

\* A teardown that stops the tracks of the stream and keeps its ref.
cleanupCaptureKeepsStream ==
  /\ wired' = [k \in Calls |-> IF k = processorRef THEN 0 ELSE wired[k]]
  /\ processorRef' = 0
  /\ inputSourceRef' = 0
  /\ stream' = [k \in Calls |-> IF k = streamRef THEN "stopped" ELSE stream[k]]
  /\ streamRef' = streamRef

\* cleanupAudio() steps 2 and 3: the capture nodes and the microphone tracks.
cleanupCapture ==
  /\ wired' = [k \in Calls |-> IF k = processorRef THEN 0 ELSE wired[k]]
  /\ processorRef' = 0
  /\ inputSourceRef' = 0
  /\ stream' = [k \in Calls |-> IF k = streamRef THEN "stopped" ELSE stream[k]]
  /\ streamRef' = 0

\* The values a read of output context k's currentTime can give.
Now(k) ==
  IF outCtx[k] = "running" THEN clock[k]..MaxClock ELSE {clock[k]}

\* The clocks after close() of the output context the ref holds: its clock
\* stops where it is (told apart only if a suspended handler captured it).
StoppedClocks ==
  IF outputContextRef # 0 /\ \E i \in DOMAIN pending : pending[i].ctx = outputContextRef
    THEN {[clock EXCEPT ![outputContextRef] = t] : t \in Now(outputContextRef)}
    ELSE {clock}

\* cleanupAudio() step 4: close the two contexts the refs hold.
cleanupContexts ==
  /\ inCtx' = Closed(inCtx, inputContextRef)
  /\ inputContextRef' = 0
  /\ outCtx' = Closed(outCtx, outputContextRef)
  /\ outputContextRef' = 0
  /\ clock' \in StoppedClocks

\* cleanupAudio() is about to run: what the refs hold.
CleanupEvent ==
  <<"cleanup", inputContextRef, outputContextRef, streamRef, processorRef>>

\* cleanupAudio(): each step guarded by the ref it releases.
cleanupAudio ==
  /\ cleanupPlayback
  /\ cleanupCapture
  /\ cleanupContexts

\* disconnect() that acts only on a session shown as on.
DisconnectWhenOn ==
  /\ Ran({<<"disconnect", connectionState>>})
  /\ IF connectionState \in {"CONNECTED", "CONNECTING"}
       THEN /\ cleanupAudio
            /\ connectionState' = "DISCONNECTED"
       ELSE UNCHANGED <<connectionState, clock, resources, playback>>
  /\ UNCHANGED <<apiKey, nCalls, pc, sess, opened, sessionPromiseRef, errors, everConnecting,
                 pending, nMsgs, lastInt>>

\* disconnect(): teardown, then DISCONNECTED.  The session is not closed.
Disconnect ==
  /\ cleanupAudio
  /\ connectionState' = "DISCONNECTED"
  /\ Ran({<<"disconnect", connectionState>>, CleanupEvent})
  /\ UNCHANGED <<apiKey, nCalls, pc, sess, opened, sessionPromiseRef, errors, everConnecting,
                 pending, nMsgs, lastInt>>

\* The catch block of connect(), but for the effect of its teardown: ERROR,
\* one onError, cleanupAudio().  what: what the step did towards the outside
\* before it.
SetupFailed(what) ==
  /\ connectionState' = "ERROR"
  /\ errors' = errors + 1
  /\ Ran(what \cup {<<"onError">>, CleanupEvent})

\* ---------------------------------------------------------------- connect
\* connect() that looks for the credential only after the audio setup.
ConnectNoKeyLate(k) ==
  /\ SetupFailed({<<"connect", connectionState>>})
  /\ cleanupPlayback
  /\ cleanupCapture
  /\ inCtx' = [Closed(inCtx, inputContextRef) EXCEPT ![k] = "running"]
  /\ inputContextRef' = 0
  /\ outCtx' = [Closed(outCtx, outputContextRef) EXCEPT ![k] = "running"]
  /\ outputContextRef' = 0
  /\ clock' \in StoppedClocks
  /\ pc' = [pc EXCEPT ![k] = "failed"]
  /\ everConnecting' = TRUE

\* connect() without a credential: the throw of line 94, caught at line 273.
ConnectNoKey(k) ==
  /\ SetupFailed({<<"connect", connectionState>>})
  /\ cleanupAudio
  /\ pc' = [pc EXCEPT ![k] = "failed"]
  /\ UNCHANGED everConnecting

\* connect() with a credential, up to the first await.  made: what the two
\* context constructions (each with its fallback) gave.
ConnectStart(k, made) ==
  /\ everConnecting' = TRUE     \* line 97, before anything can fail
  /\ \/ /\ made = "both"
        /\ connectionState' = "CONNECTING"
        /\ inCtx' = [inCtx EXCEPT ![k] = "running"]
        /\ outCtx' = [outCtx EXCEPT ![k] = "running"]
        /\ pc' = [pc EXCEPT ![k] = "resumeIn"]
        /\ Ran({<<"connect", connectionState>>, <<"set", "CONNECTING">>})
        /\ UNCHANGED <<errors, clock, inputContextRef, outputContextRef, inputSourceRef,
                       processorRef, streamRef, stream, wired, playback>>
     \/ /\ made = "inputOnly"       \* the output context could not be constructed
        /\ SetupFailed({<<"connect", connectionState>>, <<"set", "CONNECTING">>})
        /\ cleanupPlayback
        /\ cleanupCapture
        /\ inCtx' = [Closed(inCtx, inputContextRef) EXCEPT ![k] = "running"]
        /\ inputContextRef' = 0
        /\ outCtx' = Closed(outCtx, outputContextRef)
        /\ outputContextRef' = 0
        /\ clock' \in StoppedClocks
        /\ pc' = [pc EXCEPT ![k] = "failed"]
     \/ /\ made = "none"            \* the input context could not be constructed
        /\ SetupFailed({<<"connect", connectionState>>, <<"set", "CONNECTING">>})
        /\ cleanupAudio
        /\ pc' = [pc EXCEPT ![k] = "failed"]

\* connect(): call number nCalls + 1.
Connect ==
  /\ nCalls < MaxConnects
  /\ nCalls' = nCalls + 1
  /\ IF ~apiKey
       THEN ConnectNoKey(nCalls + 1)
       ELSE \E made \in {"both", "inputOnly", "none"} : ConnectStart(nCalls + 1, made)
  /\ UNCHANGED <<apiKey, sess, opened, sessionPromiseRef, pending, nMsgs,
                 lastInt>>

\* The continuation of `await inputCtx.resume()` (line 120).
ResumeIn(k) ==
  /\ pc[k] = "resumeIn"
  /\ \/ /\ Ran({})
        /\ pc' = [pc EXCEPT ![k] = "resumeOut"]
        /\ UNCHANGED <<connectionState, errors, clock, resources, playback>>
     \/ /\ SetupFailed({})
        /\ cleanupAudio
        /\ pc' = [pc EXCEPT ![k] = "failed"]
  /\ UNCHANGED <<apiKey, nCalls, sess, opened, sessionPromiseRef, everConnecting,
                 pending, nMsgs, lastInt>>

\* The continuation of `await outputCtx.resume()` (line 121): the refs are
\* assigned and getUserMedia is called.
ResumeOut(k) ==
  /\ pc[k] = "resumeOut"
  /\ \/ /\ Ran({})
        /\ inputContextRef' = k
        /\ outputContextRef' = k
        /\ pc' = [pc EXCEPT ![k] = "gum"]
        /\ UNCHANGED <<connectionState, errors, clock, inCtx, outCtx, stream, inputSourceRef,
                       processorRef, streamRef, wired, playback>>
     \/ /\ SetupFailed({})
        /\ cleanupAudio
        /\ pc' = [pc EXCEPT ![k] = "failed"]
  /\ UNCHANGED <<apiKey, nCalls, sess, opened, sessionPromiseRef, everConnecting,
                 pending, nMsgs, lastInt>>

\* getUserMedia's continuation that also wires the capture chain, without
\* waiting for onopen.
GotUserMediaWired(k) ==
  /\ pc[k] = "gum"
  /\ Ran({})
  /\ stream' = [stream EXCEPT ![k] = "live"]
  /\ streamRef' = k
  /\ sess' = [sess EXCEPT ![k] = "opening"]
  /\ sessionPromiseRef' = k
  /\ pc' = [pc EXCEPT ![k] = "done"]
  /\ inputSourceRef' = k
  /\ processorRef' = k
  /\ wired' = [wired EXCEPT ![k] = inputContextRef]
  /\ UNCHANGED <<connectionState, errors, clock, inCtx, outCtx, inputContextRef,
                 outputContextRef, playback>>
  /\ UNCHANGED <<apiKey, nCalls, opened, everConnecting, pending, nMsgs, lastInt>>

\* The continuation of `await getUserMedia(...)` (line 127): the stream is kept
\* and the remote session is requested; its promise is not awaited.
GotUserMedia(k) ==
  /\ pc[k] = "gum"
  /\ \/ /\ Ran({})
        /\ stream' = [stream EXCEPT ![k] = "live"]
        /\ streamRef' = k
        /\ sess' = [sess EXCEPT ![k] = "opening"]
        /\ sessionPromiseRef' = k
        /\ pc' = [pc EXCEPT ![k] = "done"]
        /\ UNCHANGED <<connectionState, errors, clock, inCtx, outCtx, inputContextRef,
                       outputContextRef, inputSourceRef, processorRef, wired, playback>>
     \/ /\ SetupFailed({})
        /\ cleanupAudio
        /\ pc' = [pc EXCEPT ![k] = "failed"]
        /\ UNCHANGED <<sess, sessionPromiseRef>>
  /\ UNCHANGED <<apiKey, nCalls, opened, everConnecting, pending, nMsgs,
                 lastInt>>

\* handleToggle of the application: the only caller of connect() and disconnect().
HandleToggle ==
  IF connectionState \in {"CONNECTED", "CONNECTING"} THEN Disconnect ELSE Connect

\* ------------------------------------------------------ session callbacks
\* onopen of session k: CONNECTED, then the capture chain unless a ref is null.
OnOpen(k) ==
  /\ sess[k] = "opening"
  /\ sess' = [sess EXCEPT ![k] = "open"]
  /\ opened' = opened \cup {k}
  /\ connectionState' = "CONNECTED"
  /\ IF inputContextRef = 0 \/ streamRef = 0
       THEN UNCHANGED <<inputSourceRef, processorRef, wired>>
       ELSE /\ inputSourceRef' = k
            /\ processorRef' = k
            /\ wired' = [wired EXCEPT ![k] = inputContextRef]
  /\ Ran({})
  /\ UNCHANGED <<apiKey, nCalls, pc, inCtx, outCtx, stream, clock, inputContextRef,
                 outputContextRef, streamRef, sessionPromiseRef, playback, pending,
                 nMsgs, lastInt, errors, everConnecting>>

\* onclose of session k: DISCONNECTED, teardown.
OnClose(k) ==
  /\ sess[k] \in {"open", "errored"}
  /\ sess' = [sess EXCEPT ![k] = IF sess[k] = "errored" THEN "errorClosed" ELSE "closed"]
  /\ connectionState' = "DISCONNECTED"
  /\ cleanupAudio
  /\ Ran({CleanupEvent})
  /\ UNCHANGED <<apiKey, nCalls, pc, opened, sessionPromiseRef, pending,
                 nMsgs, lastInt, errors, everConnecting>>

\* onerror of session k: ERROR, one onError, teardown.
OnError(k) ==
  /\ sess[k] \in {"opening", "open"}
  /\ sess' = [sess EXCEPT ![k] = "errored"]
  /\ connectionState' = "ERROR"
  /\ errors' = errors + 1
  /\ cleanupAudio
  /\ Ran({<<"onError">>, CleanupEvent})
  /\ UNCHANGED <<apiKey, nCalls, pc, opened, sessionPromiseRef, pending,
                 nMsgs, lastInt, everConnecting>>

\* The promise of ai.live.connect() of call k is rejected: connect() does not
\* await it (lines 142, 271), so its catch block does not run; the only
\* rejection handler is the one of the send path (line 192).
SessionRejected(k) ==
  /\ sess[k] = "opening"
  /\ sess' = [sess EXCEPT ![k] = "rejected"]
  /\ Ran({})
  /\ UNCHANGED <<connectionState, apiKey, nCalls, pc, opened, clock, resources,
                 sessionPromiseRef, playback, pending, nMsgs, lastInt, errors,
                 everConnecting>>

\* Lines 186-194: what handing a frame to session k can do.  On an open
\* session it is sent, or sendRealtimeInput throws (the transport is closing)
\* and the error is swallowed; on a session that is no longer open it is
\* dropped; while the promise is pending nothing runs.
SendOutcomes(k) ==
  IF sess[k] = "open" THEN {{<<"send", k>>}, {<<"dropped", k>>}}
  ELSE IF sess[k] = "opening" THEN {{}}
  ELSE {{<<"dropped", k>>}}

\* onaudioprocess of the processor wired by session k, on a buffer of 2048
\* samples: the level is reported and the frame goes to the session the
\* promise of call k resolved to.
OnAudioProcess(k) ==
  /\ wired[k] # 0
  /\ inCtx[wired[k]] = "running"
  /\ \E sent \in SendOutcomes(k) : Ran({<<"volume", "input">>} \cup sent)
  /\ UNCHANGED <<connectionState, apiKey, nCalls, pc, inCtx, outCtx, stream, sess, opened,
                 clock, inputContextRef, outputContextRef, inputSourceRef, processorRef,
                 streamRef, sessionPromiseRef, wired, playback, pending, nMsgs, lastInt,
                 errors, everConnecting>>

\* --------------------------------------------------------------- playback
\* The start time taken from the clock alone, whatever is queued.
StartTimeFromClock(cursor, now) ==
  now + Eps

\* The start time without the jump ahead on underrun.
StartTimeNoSnap(cursor, now) ==
  cursor

\* Lines 229-231: the start time of the next source, from the cursor and the
\* clock read at line 225.
StartTime(cursor, now) ==
  IF cursor < now THEN now + Eps ELSE cursor

\* An interruption that leaves the cursor where the stopped sources put it.
InterruptCursorKept(t) ==
  nextStartTimeRef

\* Line 247: the cursor after an interruption; t is the currentTime read.
InterruptCursor(t) ==
  IF outputContextRef # 0 THEN t ELSE 0

\* Lines 244-248: stop every active source, clear the set, reset the cursor.
\* msg: the arrival number of the message; t: the currentTime read.
Interrupt(msg, t) ==
  /\ audioSourcesRef' = {}
  /\ nextStartTimeRef' = InterruptCursor(t)
  /\ lastSource' = NoSource
  /\ lastInt' = msg

\* Lines 217-233: the source started for the decoded buffer of handler p, with
\* now the currentTime of the captured context read at line 225.
NewSource(p, now) ==
  [ msg   |-> p.msg,
    ctx   |-> p.ctx,
    start |-> StartTime(nextStartTimeRef, now),
    dur   |-> p.dur,
    detune |-> pitchRef ]

\* Scheduling that restarts the cursor from the clock read instead of
\* advancing it from the start of the source.
ScheduleFromStartOnly(src) ==
  /\ audioSourcesRef' = audioSourcesRef \cup {src}
  /\ nextStartTimeRef' = src.start
  /\ lastSource' = src

\* Lines 233-240: start the source, advance the cursor, add it to the active set.
Schedule(src) ==
  /\ audioSourcesRef' = audioSourcesRef \cup {src}
  /\ nextStartTimeRef' = src.start + src.dur
  /\ lastSource' = src

\* A failed decode handled like an interruption: playback is reset.
DecodeFailedResets(p) ==
  /\ Ran({<<"decodeFailed", p.msg>>})
  /\ audioSourcesRef' = {}
  /\ nextStartTimeRef' = 0
  /\ lastSource' = NoSource
  /\ UNCHANGED <<lastInt, clock>>

\* Line 210 throws (decodeBase64 or decodeAudioData failed on the payload of
\* handler p): the promise of the handler is rejected and nothing of the
\* message is handled, its interruption marker included.
DecodeFailed(p) ==
  /\ Ran({<<"decodeFailed", p.msg>>})
  /\ UNCHANGED <<lastInt, playback, clock>>

\* A handler that suspends is resumed before those suspended earlier.
SuspendedFirst(handlers, p) ==
  <<p>> \o handlers

\* The handlers suspended at line 210 once handler p has joined them: the
\* continuations run in the order of the awaits.
Suspended(handlers, p) ==
  Append(handlers, p)

\* onmessage of session k up to its first await, or to its end when the
\* message carries no audio.  audio: "none" | "ok" | "bad" (a payload whose
\* decoding throws); dur: the duration of the decoded buffer.
OnMessage(k, audio, dur, interrupted) ==
  /\ sess[k] = "open"
  /\ nMsgs < MaxMsgs
  /\ nMsgs' = nMsgs + 1
  /\ IF outputContextRef = 0
       THEN UNCHANGED <<pending, lastInt, playback, clock>>
       ELSE IF audio # "none"
         THEN /\ pending' = Suspended(pending, [msg |-> nMsgs + 1, ctx |-> outputContextRef,
                                                audio |-> audio, dur |-> dur,
                                                interrupted |-> interrupted])
              /\ UNCHANGED <<lastInt, playback, clock>>
         ELSE IF interrupted
           THEN /\ \E t \in Now(outputContextRef) :
                     /\ Interrupt(nMsgs + 1, t)
                     /\ clock' = [clock EXCEPT ![outputContextRef] = t]
                /\ Ran({<<"interrupt", nMsgs + 1, audioSourcesRef>>})
                /\ UNCHANGED pending
           ELSE UNCHANGED <<pending, lastInt, playback, clock>>
  /\ (outputContextRef = 0 \/ audio # "none" \/ ~interrupted) => Ran({})
  /\ UNCHANGED <<connectionState, apiKey, nCalls, pc, sess, opened, resources,
                 sessionPromiseRef, errors, everConnecting>>

\* The continuation of `await decodeAudioData(...)` (line 210) of the handler
\* suspended first: decodeAudioData has no await of its own, so its promise is
\* settled when it returns and the continuations run in the order of the calls.
Decoded ==
  /\ pending # <<>>
  /\ pending' = Tail(pending)
  /\ LET p == Head(pending)
     IN  IF p.audio = "bad"
           THEN DecodeFailed(p)
           ELSE \E now \in Now(p.ctx) :
                  LET src == NewSource(p, now)
                      started == {<<"volume", "output">>,
                                  <<"start", src, now, nextStartTimeRef, lastSource>>}
                  IN  IF p.interrupted
                        THEN \* the source just started is stopped with the rest
                             \E t \in IF outputContextRef \in {0, p.ctx}
                                        THEN {now} ELSE Now(outputContextRef) :
                               /\ Interrupt(p.msg, t)
                               /\ clock' = [k \in Calls |-> IF k = p.ctx THEN now
                                                            ELSE IF k = outputContextRef THEN t
                                                            ELSE clock[k]]
                               /\ Ran(started \cup
                                      {<<"interrupt", p.msg, audioSourcesRef \cup {src}>>})
                        ELSE /\ Schedule(src)
                             /\ clock' = [clock EXCEPT ![p.ctx] = now]
                             /\ Ran(started)
                             /\ UNCHANGED lastInt
  /\ UNCHANGED <<connectionState, apiKey, nCalls, pc, sess, opened, resources,
                 sessionPromiseRef, nMsgs, errors, everConnecting>>

\* onended of an active source: its context played to the end of its buffer.
\* The sources of one context end in the order of their ends.
OnEnded(src) ==
  /\ src \in audioSourcesRef
  /\ outCtx[src.ctx] = "running"
  /\ \A o \in audioSourcesRef : o.ctx = src.ctx => o.start + o.dur >= src.start + src.dur
  /\ \E t \in Now(src.ctx) :
       /\ t >= src.start + src.dur
       /\ clock' = [clock EXCEPT ![src.ctx] = t]
  /\ audioSourcesRef' = audioSourcesRef \ {src}
  /\ Ran({})
  /\ UNCHANGED <<connectionState, apiKey, nCalls, pc, sess, opened, resources,
                 sessionPromiseRef, nextStartTimeRef, lastSource, pending,
                 nMsgs, lastInt, errors, everConnecting>>

\* setPitch(cents): the value is stored; with an output context held, every
\* active source is retargeted to it (setTargetAtTime, its throw swallowed).
SetPitch(cents) ==
  /\ pitchRef' = cents
  /\ audioSourcesRef' = IF outputContextRef # 0
                           THEN {[src EXCEPT !.detune = cents] : src \in audioSourcesRef}
                           ELSE audioSourcesRef
  /\ last' = {<<"setPitch", cents>>}
  /\ UNCHANGED <<connectionState, apiKey, nCalls, pc, sess, opened, clock, resources,
                 sessionPromiseRef, nextStartTimeRef, lastSource, pending, nMsgs, lastInt,
                 errors, everConnecting, call>>

\* ------------------------------------------------------ utils/audioUtils
\* Sample values are rationals: a sample buffer is a sequence of integers n,
\* each for the value n / SampleDen; the decoded buffers hold integers d, each
\* for d / PcmScale.  A byte buffer is a sequence of numbers of 0..255; the
\* base64 text of a blob (btoa, atob) is modelled by the bytes it stands for.
Samples == (-MaxSample)..MaxSample
ByteValues == {0, 1, 255}
Rates == {8000, TargetRate, 24000, 44100, 48000}

RECURSIVE SeqsUpTo(_, _)
SeqsUpTo(S, n) ==
  IF n = 0 THEN {<<>>}
  ELSE LET shorter == SeqsUpTo(S, n - 1)
       IN  shorter \cup {Append(q, x) : q \in {r \in shorter : Len(r) = n - 1}, x \in S}

\* Buffers of a fixed content, for the lengths the resampler is specified on.
Ramp(n) == [i \in 1..n |-> (i % 3) - 1]

Min(a, b) == IF a < b THEN a ELSE b
Max(a, b) == IF a > b THEN a ELSE b

\* The integer part of a / b (b > 0), as the store into a typed integer array takes it.
Trunc(a, b) == IF a >= 0 THEN a \div b ELSE -((-a) \div b)

\* Math.ceil(a / b), for a >= 0 and b > 0.
Ceil(a, b) == (a + b - 1) \div b

\* The 16-bit two's complement value of the low 16 bits of x.
ToInt16(x) == LET u == x % 65536 IN IF u >= 32768 THEN u - 65536 ELSE u

\* Lines 12-13: the 16-bit PCM value of sample n / SampleDen.
ToPcm(n) ==
  LET s == Max(-SampleDen, Min(SampleDen, n))
  IN  ToInt16(IF s < 0 THEN Trunc(s * PcmNeg, SampleDen) ELSE Trunc(s * PcmPos, SampleDen))

RECURSIVE Bytes16(_)
\* The bytes of an Int16Array's buffer, low byte first.
Bytes16(ints) ==
  IF ints = <<>> THEN <<>>
  ELSE LET u == Head(ints) % 65536
       IN  <<u % 256, u \div 256>> \o Bytes16(Tail(ints))

\* createPcmBlob(data): the bytes of the blob's data.
createPcmBlob(data) ==
  Bytes16([i \in 1..Len(data) |-> ToPcm(data[i])])

\* new Int16Array(buffer) over an even number of bytes.
Int16View(bytes) ==
  [i \in 1..(Len(bytes) \div 2) |-> ToInt16(bytes[2 * i - 1] + 256 * bytes[2 * i])]

\* decodeAudioData(data, ctx, sampleRate, numChannels): the Int16Array
\* constructor of line 57 throws on an odd number of bytes; createBuffer takes
\* the whole part of frameCount, and the writes past it are dropped.
decodeAudioData(bytes, numChannels) ==
  IF Len(bytes) % 2 # 0
    THEN [threw |-> TRUE, channels |-> <<>>]
    ELSE LET dataInt16 == Int16View(bytes)
             frames == Len(dataInt16) \div numChannels
         IN  [ threw |-> FALSE,
               channels |-> [c \in 1..numChannels |->
                               [i \in 1..frames |-> dataInt16[(i - 1) * numChannels + c]]] ]

RECURSIVE SumSquares(_)
SumSquares(data) ==
  IF data = <<>> THEN 0 ELSE Head(data) * Head(data) + SumSquares(Tail(data))

\* calculateRMS(data): Math.sqrt(sum / count), in units of 1 / SampleDen;
\* 0 / 0 is NaN and so is its root.
calculateRMS(data) ==
  IF Len(data) = 0
    THEN [nan |-> TRUE, sum |-> 0, count |-> 0]
    ELSE [nan |-> FALSE, sum |-> SumSquares(data), count |-> Len(data)]

\* a || b of line 110 and 111 on a sample: a missing or zero a gives b.
OrElse(input, i, b) ==
  IF i + 1 \in DOMAIN input /\ input[i + 1] # 0 THEN input[i + 1] ELSE b

\* Lines 103-115: the sample i (from 0) of the resampled buffer, times TargetRate.
Interpolated(input, rate, i) ==
  LET floor  == (i * rate) \div TargetRate
      weight == (i * rate) % TargetRate           \* times TargetRate
      ceil   == IF weight = 0 THEN floor ELSE floor + 1
      s1     == OrElse(input, floor, 0)
      s2     == OrElse(input, ceil, OrElse(input, floor, 0))
  IN  s1 * (TargetRate - weight) + s2 * weight

\* downsampleTo16k with the length rounded down.
downsampleTo16kFloor(input, rate) ==
  IF rate = TargetRate THEN [scale |-> 1, samples |-> input]
  ELSE IF Len(input) = 0 THEN [scale |-> TargetRate, samples |-> <<>>]
  ELSE LET newLength == (Len(input) * TargetRate) \div rate
       IN  [ scale |-> TargetRate,
             samples |-> [i \in 1..newLength |-> Interpolated(input, rate, i - 1)] ]

\* downsampleTo16k(input, inputSampleRate): the input itself at the target
\* rate, else a buffer of ceil(length / ratio) interpolated samples, each
\* held times `scale`.
downsampleTo16k(input, rate) ==
  IF rate = TargetRate THEN [scale |-> 1, samples |-> input]
  ELSE IF Len(input) = 0 THEN [scale |-> TargetRate, samples |-> <<>>]
  ELSE LET newLength == Ceil(Len(input) * TargetRate, rate)
       IN  IF newLength <= 0 THEN [scale |-> TargetRate, samples |-> <<>>]
           ELSE [ scale |-> TargetRate,
                  samples |-> [i \in 1..newLength |-> Interpolated(input, rate, i - 1)] ]

\* A call of function fn on buffer data (and param) that has not run yet.
Call(fn, data, param) ==
  [fn |-> fn, data |-> data, param |-> param, ret |-> <<>>, done |-> FALSE]

Returns(value) ==
  /\ ~call.done
  /\ call' = [call EXCEPT !.ret = value, !.done = TRUE]
  /\ UNCHANGED hook

CallCalculateRMS ==
  /\ call.fn = "calculateRMS"
  /\ Returns(calculateRMS(call.data))

CallDownsampleTo16k ==
  /\ call.fn = "downsampleTo16k"
  /\ Returns(downsampleTo16k(call.data, call.param))

CallCreatePcmBlob ==
  /\ call.fn = "createPcmBlob"
  /\ Returns(createPcmBlob(call.data))

CallDecodeAudioData ==
  /\ call.fn = "decodeAudioData"
  /\ Returns(decodeAudioData(call.data, call.param))

\* A captured buffer encoded by createPcmBlob and, echoed back, decoded by
\* decodeAudioData into one channel.
CallRoundTrip ==
  /\ call.fn = "roundTrip"
  /\ Returns(decodeAudioData(createPcmBlob(call.data), 1))

\* ------------------------------------------------------- specifications
\* What the environment does: promises settle, the session calls back, the
\* devices deliver buffers and time passes.
Env ==
  \/ \E k \in Calls : ResumeIn(k)
  \/ \E k \in Calls : ResumeOut(k)
  \/ \E k \in Calls : GotUserMedia(k)
  \/ \E k \in Calls : OnOpen(k)
  \/ \E k \in Calls : OnClose(k)
  \/ \E k \in Calls : OnError(k)
  \/ \E k \in Calls : SessionRejected(k)
  \/ \E k \in Calls : OnAudioProcess(k)
  \/ \E k \in Calls, interrupted \in BOOLEAN :
        \/ OnMessage(k, "none", 1, interrupted)
        \/ OnMessage(k, "bad", 1, interrupted)
        \/ \E dur \in Durations : OnMessage(k, "ok", dur, interrupted)
  \/ Decoded
  \/ \E src \in audioSourcesRef : OnEnded(src)

\* The hook on its own: connect() and disconnect() may be called in any state.
Next == Connect \/ Disconnect \/ Env

Spec == Init /\ [][Next]_vars

\* The hook under the application, built with a credential: the calls come
\* from handleToggle.
InitApp == Init /\ apiKey

NextApp == HandleToggle \/ Env

SpecApp == InitApp /\ [][NextApp]_vars

\* The playback side of the environment: the setup of a session succeeds or
\* fails, the session opens and delivers messages, sources end.
EnvPlayback ==
  \/ \E k \in Calls : ResumeIn(k)
  \/ \E k \in Calls : ResumeOut(k)
  \/ \E k \in Calls : GotUserMedia(k)
  \/ \E k \in Calls : OnOpen(k)
  \/ \E k \in Calls, interrupted \in BOOLEAN, dur \in Durations :
        OnMessage(k, "ok", dur, interrupted)
  \/ Decoded
  \/ \E src \in audioSourcesRef : OnEnded(src)

\* The application with its pitch slider (handlePitchChange calls setPitch),
\* over the playback side.
NextPitch ==
  \/ HandleToggle
  \/ \E cents \in Pitches : SetPitch(cents)
  \/ EnvPlayback

SpecPitch == InitApp /\ [][NextPitch]_vars

\* The functions of utils/audioUtils, each called on its own on every buffer
\* of the bounds.
InitUtils ==
  /\ InitHook
  /\ apiKey
  /\ \/ \E data \in SeqsUpTo(Samples, MaxLen) :
          call \in {Call("calculateRMS", data, 0), Call("createPcmBlob", data, 0),
                    Call("roundTrip", data, 0)}
     \/ \E data \in SeqsUpTo(Samples, MaxLen) \cup {Ramp(n) : n \in {7, 299, 300, 301}},
           rate \in Rates :
          call = Call("downsampleTo16k", data, rate)
     \/ \E bytes \in SeqsUpTo(ByteValues, MaxBytes), numChannels \in {1, 2} :
          call = Call("decodeAudioData", bytes, numChannels)

NextUtils ==
  \/ CallCalculateRMS
  \/ CallDownsampleTo16k
  \/ CallCreatePcmBlob
  \/ CallDecodeAudioData
  \/ CallRoundTrip

SpecUtils == InitUtils /\ [][NextUtils]_vars

\* ----------------------------------------------------------------- claims
Events(kind) == {e \in last : e[1] = kind}

\* C1: once a message's interruption has been handled, no source is active
\* (stop() was called on every source that was) and the cursor is the current
\* clock of the output context, whatever number of sources was active; with
\* no output context left, the cursor is 0.
C1_InterruptionClearsAndResets ==
  \A e \in Events("interrupt") :
    /\ audioSourcesRef = {}
    /\ nextStartTimeRef = IF outputContextRef # 0 THEN clock[outputContextRef] ELSE 0

\* C1 happens: an interruption stopped two sources, at a clock past 0.
C1_Witness ==
  \E e \in Events("interrupt") :
    /\ Cardinality(e[3]) >= 2
    /\ outputContextRef # 0
    /\ clock[outputContextRef] > 0

\* C2: audio of a message that arrived before an interruption message is
\* neither started nor left active once that interruption has been handled.
C2_NoStaleAudioAfterInterruption ==
  /\ \A src \in audioSourcesRef : src.msg > lastInt
  /\ \A e \in Events("start") : e[2].msg >= lastInt

\* C3: a source is started at a time not below the clock read in the same step.
C3_StartNotBeforeClock ==
  \A e \in Events("start") : e[2].start >= e[3]

\* C3 happens: a source was started on underrun, after an interruption.
C3_Witness ==
  \E e \in Events("start") :
    /\ e[4] < e[3]
    /\ e[2].start = e[3] + Eps
    /\ lastInt > 0

\* C4: a source started with the cursor not behind the clock, and with no
\* interruption or teardown since the source before it, starts where that
\* one ends; the cursor is then at its own end (unless the same message
\* also carried an interruption, which resets it).
C4_Gapless ==
  \A e \in Events("start") :
    (e[5] # NoSource /\ e[4] >= e[3]) =>
       /\ e[2].start = e[5].start + e[5].dur
       /\ Events("interrupt") = {} => nextStartTimeRef = e[2].start + e[2].dur

\* C4 happens: the second of two buffers was started gaplessly while the
\* clock had advanced.
C4_Witness ==
  \E e \in Events("start") :
    /\ e[5] # NoSource
    /\ e[4] >= e[3]
    /\ e[3] > 0
    /\ Events("interrupt") = {}

\* C5: the connection state becomes CONNECTED only from CONNECTING.
C5_ConnectedOnlyFromConnecting ==
  [][(connectionState' = "CONNECTED" /\ connectionState # "CONNECTED")
       => connectionState = "CONNECTING"]_vars

\* C6: the connection state becomes ERROR only from CONNECTING or CONNECTED
\* (a connect() that sets CONNECTING and fails in the same step has passed
\* through CONNECTING).
C6_ErrorOnlyFromConnectingOrConnected ==
  [][(connectionState' = "ERROR" /\ connectionState # "ERROR")
       => \/ connectionState \in {"CONNECTING", "CONNECTED"}
          \/ <<"set", "CONNECTING">> \in last']_vars

\* C7: at most one remote session is open at any time.
C7_AtMostOneActiveSession ==
  Cardinality({k \in Calls : sess[k] = "open"}) <= 1

\* C8: disconnect(), called in any connection state, runs the teardown and
\* leaves the state DISCONNECTED.
C8_DisconnectTearsDown ==
  \A e \in Events("disconnect") :
    /\ connectionState = "DISCONNECTED"
    /\ audioSourcesRef = {}
    /\ nextStartTimeRef = 0
    /\ processorRef = 0 /\ inputSourceRef = 0 /\ streamRef = 0
    /\ inputContextRef = 0 /\ outputContextRef = 0

\* C8 happens: disconnect() was called in state ERROR.
C8_Witness ==
  <<"disconnect", "ERROR">> \in last

\* C9: connect() without a credential ends in ERROR, never calls
\* setConnectionState(CONNECTING) and creates no context, stream or session.
C9_NoCredentialFailsFast ==
  ~apiKey =>
    /\ ~everConnecting
    /\ connectionState # "CONNECTING"
    /\ \A k \in Calls : inCtx[k] = "none" /\ outCtx[k] = "none"
                           /\ stream[k] = "none" /\ sess[k] = "none"
    /\ Events("connect") # {} => connectionState = "ERROR" /\ <<"onError">> \in last

\* C9 happens: connect() was called without a credential.
C9_Witness ==
  ~apiKey /\ Events("connect") # {} /\ connectionState = "ERROR"

\* C10: the capture chain of a session is wired, and a frame handed to the
\* session's send path, only after the session's onopen has run.
C10_WiredAfterOpen ==
  /\ \A k \in Calls : wired[k] # 0 => k \in opened
  /\ \A e \in Events("send") : e[2] \in opened /\ sess[e[2]] \notin {"none", "opening"}

\* C10 happens: a frame was handed to an open session.
C10_Witness ==
  \E e \in Events("send") : sess[e[2]] = "open"

\* C11: a message is handled (its audio metered and scheduled, its
\* interruption acted on) only while the connection state is CONNECTED.
C11_HandledOnlyWhileConnected ==
  (\/ Events("start") # {}
   \/ Events("interrupt") # {}
   \/ <<"volume", "output">> \in last) => connectionState = "CONNECTED"

\* C12: cleanupAudio(), run with the refs holding anything, is never run on a
\* closed context or a stopped stream, closes the contexts and stops the
\* stream the refs held, leaves every ref null, the active set empty and the
\* cursor at 0, and is then at a fixpoint: run again, it changes nothing.
C12_TeardownReleasesAll ==
  /\ inputContextRef # 0 => inCtx[inputContextRef] = "running"
  /\ outputContextRef # 0 => outCtx[outputContextRef] = "running"
  /\ streamRef # 0 => stream[streamRef] = "live"
  /\ \A e \in Events("cleanup") :
       /\ e[2] # 0 => inCtx[e[2]] = "closed"
       /\ e[3] # 0 => outCtx[e[3]] = "closed"
       /\ e[4] # 0 => stream[e[4]] = "stopped"
       /\ e[5] # 0 => wired[e[5]] = 0
       /\ inputContextRef = 0 /\ outputContextRef = 0
       /\ streamRef = 0 /\ processorRef = 0 /\ inputSourceRef = 0
       /\ audioSourcesRef = {} /\ nextStartTimeRef = 0
       /\ Closed(inCtx, inputContextRef) = inCtx
       /\ Closed(outCtx, outputContextRef) = outCtx
       /\ StoppedClocks = {clock}

\* C12 happens: the teardown ran on the full pipeline.
C12_Witness ==
  \E e \in Events("cleanup") : e[2] # 0 /\ e[3] # 0 /\ e[4] # 0 /\ e[5] # 0

\* C13: once a call of connect() has failed during its setup, no context and
\* no stream that the call acquired is still running.
C13_FailedSetupHoldsNothing ==
  \A k \in Calls :
    pc[k] = "failed" =>
      inCtx[k] # "running" /\ outCtx[k] # "running" /\ stream[k] # "live"

\* C14: onError has been called once for every attempt that failed, during
\* its setup or through its session, and for nothing else.
C14_OneErrorPerFailedAttempt ==
  errors = Cardinality({k \in Calls : \/ pc[k] = "failed"
                                      \/ sess[k] \in {"errored", "errorClosed", "rejected"}})

\* C15: a step in which the send of a frame or the decoding of a payload
\* fails leaves the connection state, the active set, the cursor and every
\* held resource as they are; the processor that captured the frame is still
\* wired on a running context, and the handlers suspended behind the failed
\* one are still to run.
C15_FrameFailureChangesNothing ==
  [][(\E e \in last' : e[1] \in {"dropped", "decodeFailed"}) =>
       /\ UNCHANGED <<connectionState, audioSourcesRef, nextStartTimeRef, resources,
                      sess, sessionPromiseRef, errors>>
       /\ \A e \in last' : e[1] = "dropped" =>
            wired'[e[2]] # 0 /\ inCtx'[wired'[e[2]]] = "running"
       /\ \A e \in last' : e[1] = "decodeFailed" => pending' = Tail(pending)]_vars

\* C15 happens: a decode failed while a source was active and the cursor set.
C15_Witness ==
  /\ Events("decodeFailed") # {}
  /\ audioSourcesRef # {}
  /\ nextStartTimeRef > 0

\* The buffer decodeAudioData is to give for the whole samples of a byte
\* buffer: the frames the 16-bit values fill completely.
WholeSamplePrefix(bytes, numChannels) ==
  LET samples == Len(bytes) \div 2
      frames  == samples \div numChannels
  IN  [c \in 1..numChannels |->
         [i \in 1..frames |->
            ToInt16(bytes[2 * ((i - 1) * numChannels + c) - 1]
                    + 256 * bytes[2 * ((i - 1) * numChannels + c)])]]

\* C16: decodeAudioData does not throw on a byte buffer of any length and
\* gives the buffer of the largest whole-sample prefix.
C16_DecodeTruncatesMalformed ==
  (call.fn = "decodeAudioData" /\ call.done) =>
     /\ ~call.ret.threw
     /\ call.ret.channels = WholeSamplePrefix(call.data, call.param)

\* C17: after setPitch(c) every active source has detune target c, and a
\* source is created with the pitch stored last.
C17_PitchReachesEverySource ==
  /\ \A e \in Events("setPitch") : \A src \in audioSourcesRef : src.detune = e[2]
  /\ \A e \in Events("start") : e[2].detune = pitchRef

\* The level r is the value v / SampleDen, v >= 0.
IsLevel(r, v) ==
  ~r.nan /\ r.count > 0 /\ r.sum = v * v * r.count

\* C18: calculateRMS gives 0 on the empty buffer and |v| on a buffer of the
\* constant v.
C18_LevelOfEmptyAndConstant ==
  (call.fn = "calculateRMS" /\ call.done) =>
     /\ Len(call.data) = 0 => IsLevel(call.ret, 0)
     /\ \A v \in Samples :
          (Len(call.data) > 0 /\ \A i \in 1..Len(call.data) : call.data[i] = v)
             => IsLevel(call.ret, IF v < 0 THEN -v ELSE v)

\* C19: downsampleTo16k gives a buffer of ceil(n / (rate / 16000)) samples,
\* the least m with m * rate >= n * 16000; at the target rate it gives the
\* input itself; on the empty input it gives the empty buffer; on 300 samples
\* at 48000 it gives 100.
C19_ResampledLength ==
  (call.fn = "downsampleTo16k" /\ call.done) =>
     LET n == Len(call.data)
         m == Len(call.ret.samples)
     IN  /\ m * call.param >= n * 16000
         /\ m > 0 => (m - 1) * call.param < n * 16000
         /\ call.param = 16000 => call.ret.samples = call.data /\ call.ret.scale = 1
         /\ n = 0 => call.ret.samples = <<>>
         /\ (n = 300 /\ call.param = 48000) => m = 100

\* C19 happens: 300 samples at 48000 were resampled to 100.
C19_Witness ==
  /\ call.fn = "downsampleTo16k" /\ call.done
  /\ Len(call.data) = 300 /\ call.param = 48000
  /\ Len(call.ret.samples) = 100

\* C20: a sample of [-1, 1] encoded by createPcmBlob and decoded by
\* decodeAudioData is within 1 / 32768 of itself:
\* |d / 32768 - n / SampleDen| <= 1 / 32768.
C20_RoundTripWithinOneStep ==
  (call.fn = "roundTrip" /\ call.done) =>
     /\ ~call.ret.threw
     /\ \A i \in 1..Len(call.data) :
          (call.data[i] >= -SampleDen /\ call.data[i] <= SampleDen) =>
             LET diff == call.ret.channels[1][i] * SampleDen - call.data[i] * 32768
             IN  diff <= SampleDen /\ -diff <= SampleDen

\* The events of kind `kind` of the step being taken.
EventsAfter(kind) == {e \in last' : e[1] = kind}

\* C21 (as claimed): of two audio messages of one session, the one that
\* arrived first is scheduled first and does not start later.  Stated for
\* two sources scheduled in consecutive steps, the first of them possibly
\* stopped by the interruption its own message carried, with session 1 the
\* only session requested.
C21_StartsInArrivalOrder ==
  [][(\A k \in Calls \ {1} : sess'[k] = "none") =>
       \A a \in Events("start"), b \in EventsAfter("start") :
          a[2].msg < b[2].msg /\ a[2].start <= b[2].start]_vars

\* C21 (amended): the handlers resume in the order of arrival, so a source
\* is scheduled after every source of an earlier message; and it starts no
\* earlier than any source scheduled since the last interruption or
\* teardown (the sources still in the active set, and the one started last).
C21_FifoSinceLastReset ==
  /\ \A i, j \in DOMAIN pending : i < j => pending[i].msg < pending[j].msg
  /\ \A src \in audioSourcesRef : \A i \in DOMAIN pending : src.msg < pending[i].msg
  /\ \A e \in Events("start") :
       /\ \A i \in DOMAIN pending : e[2].msg < pending[i].msg
       /\ e[5] # NoSource => e[5].msg < e[2].msg /\ e[5].start <= e[2].start
       /\ \A src \in audioSourcesRef :
            src.msg <= e[2].msg /\ src.start <= e[2].start

\* C21 happens: a second source was started, later than the first and while
\* the first was active.
C21_Witness ==
  \E e \in Events("start") :
    /\ e[5] # NoSource
    /\ e[5].start < e[2].start
    /\ Cardinality(audioSourcesRef) >= 2
    /\ Events("interrupt") = {}

\* C22 (as claimed): while an output context is held and but for a teardown,
\* no step makes the cursor smaller.
C22_CursorNeverDecreases ==
  [][(outputContextRef # 0 /\ EventsAfter("cleanup") = {})
       => nextStartTimeRef' >= nextStartTimeRef]_vars

\* C22 (amended): but for a teardown, a step that handles no interruption
\* (scheduling a buffer, with or without the jump ahead on underrun) never
\* makes the cursor smaller, and a step that handles one leaves the cursor at
\* the clock of the output context held (0 with none held), which may be
\* below the cursor before.
C22_CursorAdvancesBetweenResets ==
  [][EventsAfter("cleanup") = {} =>
       IF EventsAfter("interrupt") = {}
         THEN nextStartTimeRef' >= nextStartTimeRef
         ELSE nextStartTimeRef' = IF outputContextRef' # 0 THEN clock'[outputContextRef']
                                                            ELSE 0]_vars

\* C22 happens: a buffer was scheduled at a cursor ahead of the clock, and
\* the cursor advanced from there.
C22_Witness ==
  \E e \in Events("start") :
    /\ Events("interrupt") = {}
    /\ e[4] > e[3]
    /\ e[3] > 0
    /\ nextStartTimeRef > e[4]

\* Linear interpolation at output index i (from 0) of a non-empty input,
\* times 16000: input[floor] * (1 - frac) + input[ceil] * frac, an index
\* past the end replaced by the last one.
LinearAt(input, rate, i) ==
  LET floor == (i * rate) \div 16000
      frac  == (i * rate) % 16000
      ceil  == IF frac = 0 THEN floor ELSE floor + 1
      at(j) == input[Min(j, Len(input) - 1) + 1]
  IN  at(floor) * (16000 - frac) + at(ceil) * frac

\* C23: every sample downsampleTo16k gives for a non-empty input at a rate
\* other than 16000 is the linear interpolation of the input at i * ratio,
\* whatever the values of the samples.
C23_ResampledValues ==
  (call.fn = "downsampleTo16k" /\ call.done /\ call.param # 16000 /\ Len(call.data) > 0) =>
     \A i \in 1..Len(call.ret.samples) :
        call.ret.samples[i] = LinearAt(call.data, call.param, i - 1)

\* connect() call k is suspended at one of its awaits.
InProgress(k) == pc[k] \in {"resumeIn", "resumeOut", "gum"}

\* C24: with the connection state DISCONNECTED or ERROR and no call of
\* connect() in progress, no microphone stream is held or live and no audio
\* context is held or running.  Stated for the calls whose setup did not
\* fail (what a failed setup leaves behind is C13's subject).
C24_NothingHeldWhileOff ==
  (connectionState \in {"DISCONNECTED", "ERROR"} /\ \A k \in Calls : ~InProgress(k)) =>
     /\ streamRef = 0 /\ inputContextRef = 0 /\ outputContextRef = 0
     /\ \A k \in Calls :
          pc[k] = "done" =>
            stream[k] # "live" /\ inCtx[k] # "running" /\ outCtx[k] # "running"

\* C25: the step that follows a teardown, unless it is a call of connect(),
\* leaves the active set empty and the cursor at 0.
C25_TeardownFinalForPlayback ==
  [][(Events("cleanup") # {} /\ EventsAfter("connect") = {})
       => audioSourcesRef' = {} /\ nextStartTimeRef' = 0]_vars

\* C26: in state CONNECTED the two contexts and the stream are held and the
\* processor is wired.
C26_ConnectedMeansWired ==
  connectionState = "CONNECTED" =>
     /\ inputContextRef # 0 /\ outputContextRef # 0 /\ streamRef # 0
     /\ processorRef # 0 /\ inputSourceRef # 0
     /\ wired[processorRef] # 0

\* C27: a connection state of CONNECTING is left by a response of the
\* environment, so in CONNECTING a response is outstanding: a call of
\* connect() is suspended at an await, or a session is still to call back
\* (onopen, onerror, onclose).
C27_ConnectingAwaitsAResponse ==
  connectionState = "CONNECTING" =>
     \E k \in Calls : InProgress(k) \/ sess[k] \in {"opening", "open", "errored"}

====
